---- MODULE Spec2Model ----
(***************************************************************************)
(* METAR viewer, src/metarViewer/main.cpp: decoding of raw report lines    *)
(* (tokenizer, wind / visibility / ceiling / weather decoders), wind       *)
(* components, minima evaluation in the text and the JSON renderer, and    *)
(* the trend over a sequence of decoded reports.                           *)
(*                                                                         *)
(* A std::string is a sequence of one-character strings.  A double is an   *)
(* exact rational [num, den] in lowest terms; the trigonometric functions  *)
(* are a fixed-point table.  std::optional<T> is NullOpt or Some(v); a     *)
(* call that ends in an uncaught C++ exception yields Thrown.              *)
(***************************************************************************)
EXTENDS Integers, Sequences, FiniteSets, TLC

VARIABLES
    pc,              \* position of main (or of the unit harness)
    metar_raws,      \* main: the raw report lines, in order
    minima,          \* main: Minima
    runway_heading,  \* main: --runway, 0 when not given
    format,          \* main: OutputFormat
    decoded,         \* main: std::vector<MetarDecoded>
    idx,             \* main: index of the text loop
    out_json,        \* what print_metar_json wrote, per report
    out_text,        \* what analyze_metar wrote, per report
    trend_json,      \* what print_trend_json wrote
    trend_text,      \* what print_trend_text wrote
    arg,             \* unit harness: the token vector passed in
    ret              \* unit harness: the value returned

vars ==
    <<pc, metar_raws, minima, runway_heading, format, decoded, idx,
      out_json, out_text, trend_json, trend_text, arg, ret>>

---------------------------------------------------------------------------
(* Bounds of the model.                                                    *)

MaxVisTokens == 3

MaxWindTokens == 2

MaxDir == 360

MaxSpeed == 99

MaxReports == 2

MaxCeilTokens == 3

MaxWxTokens == 2

MaxDecodeTokens == 3
MaxTrendReports == 3
MaxDesiredCount == 3

\* the largest direction a wind group of three digits can give
MaxWindDir == 999

---------------------------------------------------------------------------
(* std::optional, exceptions.                                              *)

NullOpt == [has |-> FALSE]

Some(v) == [has |-> TRUE, val |-> v]

Thrown == [thrown |-> TRUE]

Min(S) == CHOOSE x \in S : \A y \in S : x <= y

Abs(x) == IF x < 0 THEN -x ELSE x

---------------------------------------------------------------------------
(* double, as an exact rational in lowest terms with den > 0.              *)

RECURSIVE gcd(_, _)
gcd(a, b) == IF b = 0 THEN a ELSE gcd(b, a % b)

Rat(n, d) ==
    LET g == gcd(Abs(n), d)
    IN  [num |-> n \div g, den |-> d \div g]

RatInt(n) == [num |-> n, den |-> 1]

RatAdd(a, b) == Rat(a.num * b.den + b.num * a.den, a.den * b.den)

RatSub(a, b) == Rat(a.num * b.den - b.num * a.den, a.den * b.den)

RatLess(a, b) == a.num * b.den < b.num * a.den

---------------------------------------------------------------------------
(* Characters and strings.                                                 *)

DigitChars == <<"0","1","2","3","4","5","6","7","8","9">>

LowerChars == <<"a","b","c","d","e","f","g","h","i","j","k","l","m","n","o","p","q","r","s","t","u","v","w","x","y","z">>

UpperChars == <<"A","B","C","D","E","F","G","H","I","J","K","L","M","N","O","P","Q","R","S","T","U","V","W","X","Y","Z">>

isdigit(c) == \E i \in 1..Len(DigitChars) : DigitChars[i] = c

DigitVal(c) == (CHOOSE i \in 1..Len(DigitChars) : DigitChars[i] = c) - 1

\* (the vertical tab, also white space, has no TLA+ string escape)
isspace(c) == c \in {" ", "\t", "\n", "\r", "\f"}

toupper(c) ==
    IF \E i \in 1..Len(LowerChars) : LowerChars[i] = c
    THEN UpperChars[CHOOSE i \in 1..Len(LowerChars) : LowerChars[i] = c]
    ELSE c

\* std::string::npos
npos == -1

\* s.substr(pos, n), pos counted from 0 and pos <= s.size()
substr(s, pos, n) ==
    SubSeq(s, pos + 1, IF pos + n < Len(s) THEN pos + n ELSE Len(s))

\* s.substr(pos)
substr_from(s, pos) == SubSeq(s, pos + 1, Len(s))

\* whether pat stands in s at position p (from 0)
MatchAt(s, pat, p) ==
    /\ p + Len(pat) <= Len(s)
    /\ \A k \in 1..Len(pat) : s[p + k] = pat[k]

find_at_start(s, pat) == IF MatchAt(s, pat, 0) THEN 0 ELSE npos

\* s.find(pat): the first position (from 0) or npos
find(s, pat) ==
    LET hits == {p \in 0..(Len(s) - Len(pat)) : MatchAt(s, pat, p)}
    IN  IF hits = {} THEN npos ELSE Min(hits)

\* s.rfind(pat, 0) == 0
starts_with(s, pat) == MatchAt(s, pat, 0)

\* iss >> tok: the maximal runs of non-space characters, in order
split_tokens(s) ==
    LET starts == {i \in 1..Len(s) :
                      ~isspace(s[i]) /\ (i = 1 \/ isspace(s[i - 1]))}
        start(k) == CHOOSE i \in starts : Cardinality({j \in starts : j < i}) = k - 1
        end(i) == Min({j \in i..Len(s) : j = Len(s) \/ isspace(s[j + 1])})
    IN  [k \in 1..Cardinality(starts) |-> SubSeq(s, start(k), end(start(k)))]

is_number(s) == s # <<>> /\ \A i \in 1..Len(s) : isdigit(s[i])

\* the string left as it is
to_upper_id(s) == s

to_upper(s) == [i \in 1..Len(s) |-> toupper(s[i])]

---------------------------------------------------------------------------
(* std::stoi and std::stod on a string of digits.                          *)

RECURSIVE DigitsValue(_)
DigitsValue(s) ==
    IF s = <<>> THEN 0
    ELSE 10 * DigitsValue(SubSeq(s, 1, Len(s) - 1)) + DigitVal(s[Len(s)])

stoi_base0(s) ==
    IF Len(s) > 1 /\ s[1] = "0"
    THEN LET RECURSIVE Oct(_)
             Oct(t) == IF t = <<>> THEN 0
                       ELSE 8 * Oct(SubSeq(t, 1, Len(t) - 1)) + DigitVal(t[Len(t)])
         IN  Oct(s)
    ELSE DigitsValue(s)

stoi(s) == DigitsValue(s)

RECURSIVE StripZeros(_)
StripZeros(s) ==
    IF s # <<>> /\ s[1] = "0" THEN StripZeros(SubSeq(s, 2, Len(s))) ELSE s

\* the number of decimal digits of DBL_MAX
MaxDoubleDigits == 309

\* 2^1024 - 2^970: the least integer that strtod rounds to infinity
DoubleOverflowFrom ==
    <<
       "1","7","9","7","6","9","3","1","3","4","8","6","2","3","1","5","8","0","7","9",
       "3","7","2","8","9","7","1","4","0","5","3","0","3","4","1","5","0","7","9","9",
       "3","4","1","3","2","7","1","0","0","3","7","8","2","6","9","3","6","1","7","3",
       "7","7","8","9","8","0","4","4","4","9","6","8","2","9","2","7","6","4","7","5",
       "0","9","4","6","6","4","9","0","1","7","9","7","7","5","8","7","2","0","7","0",
       "9","6","3","3","0","2","8","6","4","1","6","6","9","2","8","8","7","9","1","0",
       "9","4","6","5","5","5","5","4","7","8","5","1","9","4","0","4","0","2","6","3",
       "0","6","5","7","4","8","8","6","7","1","5","0","5","8","2","0","6","8","1","9",
       "0","8","9","0","2","0","0","0","7","0","8","3","8","3","6","7","6","2","7","3",
       "8","5","4","8","4","5","8","1","7","7","1","1","5","3","1","7","6","4","4","7",
       "5","7","3","0","2","7","0","0","6","9","8","5","5","5","7","1","3","6","6","9",
       "5","9","6","2","2","8","4","2","9","1","4","8","1","9","8","6","0","8","3","4",
       "9","3","6","4","7","5","2","9","2","7","1","9","0","7","4","1","6","8","4","4",
       "4","3","6","5","5","1","0","7","0","4","3","4","2","7","1","1","5","5","9","6",
       "9","9","5","0","8","0","9","3","0","4","2","8","8","0","1","7","7","9","0","4",
       "1","7","4","4","9","7","7","9","2"
    >>
\* whether digit string a (no leading zeros) is >= b, both of the same length
DigitsGeq(a, b) ==
    \/ a = b
    \/ \E i \in 1..Len(a) :
          /\ \A k \in 1..(i - 1) : a[k] = b[k]
          /\ DigitVal(a[i]) > DigitVal(b[i])

\* std::stod throws std::out_of_range when strtod reports ERANGE
stod_out_of_range(s) ==
    LET sig == StripZeros(s)
    IN  \/ Len(sig) > MaxDoubleDigits
        \/ Len(sig) = MaxDoubleDigits /\ DigitsGeq(sig, DoubleOverflowFrom)

stod(s) == IF stod_out_of_range(s) THEN Thrown ELSE Some(RatInt(DigitsValue(s)))

---------------------------------------------------------------------------
(* parse_fraction and parse_visibility_sm.                                 *)

parse_fraction(token) ==
    LET slash_pos == find(token, <<"/">>)
        num_str == substr(token, 0, slash_pos)
        den_str == substr_from(token, slash_pos + 1)
        num == stod(num_str)
        den == stod(den_str)
    IN  IF slash_pos = npos THEN NullOpt
        ELSE IF ~is_number(num_str) \/ ~is_number(den_str) THEN NullOpt
        ELSE IF num = Thrown \/ den = Thrown THEN Thrown
        ELSE IF den.val.num = 0 THEN NullOpt
        ELSE Some(Rat(num.val.num, den.val.num))

\* the token's part before "SM"
value_part(tok) == substr(tok, 0, find(tok, <<"S","M">>))

\* the loop body for a token i (from 1) that holds "SM": total, or Thrown
VisTotal(tokens, i) ==
    LET part == value_part(tokens[i])
        frac == parse_fraction(part)
        own  == IF part = <<>> THEN Some(RatInt(0))
                ELSE IF frac = Thrown THEN Thrown
                ELSE IF frac.has THEN frac
                ELSE IF is_number(part) THEN stod(part)
                ELSE Some(RatInt(0))
        lead == IF i > 1 /\ is_number(tokens[i - 1])
                THEN stod(tokens[i - 1])
                ELSE Some(RatInt(0))
    IN  IF own = Thrown \/ lead = Thrown THEN Thrown
        ELSE Some(RatAdd(own.val, lead.val))

parse_visibility_sm_zero(tokens) ==
    LET ends == {i \in 1..Len(tokens) :
                    /\ find(tokens[i], <<"S","M">>) # npos
                    /\ \/ VisTotal(tokens, i) = Thrown
                       \/ ~RatLess(VisTotal(tokens, i).val, RatInt(0))}
    IN  IF ends = {} THEN NullOpt ELSE VisTotal(tokens, Min(ends))

\* returns at the first token with "SM" whose total is > 0 (or that throws)
parse_visibility_sm(tokens) ==
    LET ends == {i \in 1..Len(tokens) :
                    /\ find(tokens[i], <<"S","M">>) # npos
                    /\ \/ VisTotal(tokens, i) = Thrown
                       \/ RatLess(RatInt(0), VisTotal(tokens, i).val)}
    IN  IF ends = {} THEN NullOpt ELSE VisTotal(tokens, Min(ends))

---------------------------------------------------------------------------
(* parse_wind.                                                             *)

\* the ways tok matches (\d{3}|VRB)(\d{2,3})(G(\d{2,3}))?KT as a whole:
\* sl digits of speed and gl digits of gust (0: no G group)
WindParts(tok) ==
    {p \in [sl : {2, 3}, gl : {0, 2, 3}] :
        /\ Len(tok) = 3 + p.sl + (IF p.gl = 0 THEN 0 ELSE 1 + p.gl) + 2
        /\ is_number(SubSeq(tok, 1, 3)) \/ SubSeq(tok, 1, 3) = <<"V","R","B">>
        /\ is_number(SubSeq(tok, 4, 3 + p.sl))
        /\ p.gl > 0 =>
              /\ tok[4 + p.sl] = "G"
              /\ is_number(SubSeq(tok, 5 + p.sl, 4 + p.sl + p.gl))
        /\ SubSeq(tok, Len(tok) - 1, Len(tok)) = <<"K","T">>}

regex_match(tok) == WindParts(tok) # {}

\* WindInfo of the matching token tok
WindOf(tok) ==
    LET p  == CHOOSE q \in WindParts(tok) : TRUE
        m1 == SubSeq(tok, 1, 3)
        m2 == SubSeq(tok, 4, 3 + p.sl)
        m4 == SubSeq(tok, 5 + p.sl, 4 + p.sl + p.gl)
    IN  [direction_deg |-> IF m1 # <<"V","R","B">> THEN Some(stoi(m1)) ELSE NullOpt,
         speed_kt      |-> stoi(m2),
         gust_kt       |-> IF p.gl > 0 THEN Some(stoi(m4)) ELSE NullOpt]

\* a wind from due north in place of no direction
WindInfoNorth == [direction_deg |-> Some(0), speed_kt |-> 0, gust_kt |-> NullOpt]

\* WindInfo{}
WindInfoDefault == [direction_deg |-> NullOpt, speed_kt |-> 0, gust_kt |-> NullOpt]

parse_wind_last(tokens) ==
    LET hits == {i \in 1..Len(tokens) : regex_match(tokens[i])}
    IN  IF hits = {} THEN WindInfoDefault
        ELSE WindOf(tokens[CHOOSE i \in hits : \A j \in hits : j <= i])

parse_wind(tokens) ==
    LET hits == {i \in 1..Len(tokens) : regex_match(tokens[i])}
    IN  IF hits = {} THEN WindInfoDefault ELSE WindOf(tokens[Min(hits)])

---------------------------------------------------------------------------
(* parse_ceiling_ft.                                                       *)

IsLayerToken(tok) ==
    starts_with(tok, <<"O","V","C">>) \/ starts_with(tok, <<"B","K","N">>) \/ starts_with(tok, <<"V","V">>)

\* tok.substr(start, 3) with start = 2 after "VV" and 3 otherwise
height_str(tok) == substr(tok, IF starts_with(tok, <<"V","V">>) THEN 2 ELSE 3, 3)

\* the loop from token i on; acc is (ceiling_ft, layer_out) so far
RECURSIVE CeilingScan(_, _, _)
CeilingScan(tokens, i, acc) ==
    IF i > Len(tokens) THEN acc
    ELSE LET tok == tokens[i]
             height == stoi(height_str(tok)) * 100
         IN  IF /\ IsLayerToken(tok)
                /\ is_number(height_str(tok))
                /\ (~acc.ceiling_ft.has \/ height < acc.ceiling_ft.val)
             THEN CeilingScan(tokens, i + 1,
                      [ceiling_ft |-> Some(height), ceiling_layer |-> substr(tok, 0, 3)])
             ELSE CeilingScan(tokens, i + 1, acc)

\* the returned optional and layer_out (the caller passes an empty string)
parse_ceiling_ft(tokens) ==
    CeilingScan(tokens, 1, [ceiling_ft |-> NullOpt, ceiling_layer |-> <<>>])

---------------------------------------------------------------------------
(* parse_weather.                                                          *)

\* wx_map in the order of its initializer list
wx_map_listed ==
    << [code |-> <<"T","S">>, desc |-> "thunderstorm"],
       [code |-> <<"R","A">>, desc |-> "rain"],
       [code |-> <<"D","Z">>, desc |-> "drizzle"],
       [code |-> <<"S","N">>, desc |-> "snow"],
       [code |-> <<"S","G">>, desc |-> "snow grains"],
       [code |-> <<"P","L">>, desc |-> "ice pellets"],
       [code |-> <<"F","G">>, desc |-> "fog"],
       [code |-> <<"B","R">>, desc |-> "mist"],
       [code |-> <<"H","Z">>, desc |-> "haze"],
       [code |-> <<"F","U">>, desc |-> "smoke"],
       [code |-> <<"S","H">>, desc |-> "showers"] >>

\* wx_map in the iteration order of std::map: ascending by code
wx_map ==
    << [code |-> <<"B","R">>, desc |-> "mist"],
       [code |-> <<"D","Z">>, desc |-> "drizzle"],
       [code |-> <<"F","G">>, desc |-> "fog"],
       [code |-> <<"F","U">>, desc |-> "smoke"],
       [code |-> <<"H","Z">>, desc |-> "haze"],
       [code |-> <<"P","L">>, desc |-> "ice pellets"],
       [code |-> <<"R","A">>, desc |-> "rain"],
       [code |-> <<"S","G">>, desc |-> "snow grains"],
       [code |-> <<"S","H">>, desc |-> "showers"],
       [code |-> <<"S","N">>, desc |-> "snow"],
       [code |-> <<"T","S">>, desc |-> "thunderstorm"] >>

InSeq(x, s) == \E k \in 1..Len(s) : s[k] = x

\* the nested loops from token i, map entry c on
RECURSIVE WeatherScan(_, _, _, _)
WeatherScan(tokens, i, c, found) ==
    IF i > Len(tokens) THEN found
    ELSE IF c > Len(wx_map) THEN WeatherScan(tokens, i + 1, 1, found)
    ELSE IF /\ find(tokens[i], wx_map[c].code) # npos
            /\ ~InSeq(wx_map[c].desc, found)
         THEN WeatherScan(tokens, i, c + 1, Append(found, wx_map[c].desc))
         ELSE WeatherScan(tokens, i, c + 1, found)

parse_weather(tokens) == WeatherScan(tokens, 1, 1, <<>>)

---------------------------------------------------------------------------
(* compute_wind_components.  Angles are whole degrees (direction and       *)
(* heading are ints); std::sin and std::cos are a table of sin(k degrees)  *)
(* in units of 1/SinScale.                                                 *)

SinScale == 100000

SinTable ==
    <<
       0, 1745, 3490, 5234, 6976, 8716, 10453, 12187, 13917, 15643,
       17365, 19081, 20791, 22495, 24192, 25882, 27564, 29237, 30902, 32557,
       34202, 35837, 37461, 39073, 40674, 42262, 43837, 45399, 46947, 48481,
       50000, 51504, 52992, 54464, 55919, 57358, 58779, 60182, 61566, 62932,
       64279, 65606, 66913, 68200, 69466, 70711, 71934, 73135, 74314, 75471,
       76604, 77715, 78801, 79864, 80902, 81915, 82904, 83867, 84805, 85717,
       86603, 87462, 88295, 89101, 89879, 90631, 91355, 92050, 92718, 93358,
       93969, 94552, 95106, 95630, 96126, 96593, 97030, 97437, 97815, 98163,
       98481, 98769, 99027, 99255, 99452, 99619, 99756, 99863, 99939, 99985,
       100000
    >>
SinDeg(a) ==
    LET r == a % 360
    IN  IF r <= 90 THEN SinTable[r + 1]
        ELSE IF r <= 180 THEN SinTable[180 - r + 1]
        ELSE IF r <= 270 THEN -SinTable[r - 180 + 1]
        ELSE -SinTable[360 - r + 1]

CosDeg(a) == SinDeg(a + 90)

\* the angle, in degrees, that sin and cos are applied to
angle_diff(direction_deg, runway_heading_deg) ==
    LET d == Abs(direction_deg - runway_heading_deg)
    IN  IF d > 180 THEN 360 - d ELSE d

\* every heading due north (0, 360, 720, ...) taken for the sentinel
compute_wind_components_north(wind, runway_heading_deg) ==
    IF ~wind.direction_deg.has \/ runway_heading_deg % 360 = 0 THEN NullOpt
    ELSE LET a == angle_diff(wind.direction_deg.val, runway_heading_deg)
         IN  Some([headwind  |-> Rat(CosDeg(a) * wind.speed_kt, SinScale),
                   crosswind |-> Rat(SinDeg(a) * wind.speed_kt, SinScale)])

compute_wind_components(wind, runway_heading_deg) ==
    IF ~wind.direction_deg.has \/ runway_heading_deg = 0 THEN NullOpt
    ELSE LET a == angle_diff(wind.direction_deg.val, runway_heading_deg)
         IN  Some([headwind  |-> Rat(CosDeg(a) * wind.speed_kt, SinScale),
                   crosswind |-> Rat(SinDeg(a) * wind.speed_kt, SinScale)])

\* std::fabs
fabs(x) == [num |-> Abs(x.num), den |-> x.den]

---------------------------------------------------------------------------
(* decode_metar.                                                           *)

decode_metar(raw) ==
    LET tokens == [i \in 1..Len(split_tokens(raw)) |-> to_upper(split_tokens(raw)[i])]
        vis == parse_visibility_sm(tokens)
        ceil == parse_ceiling_ft(tokens)
    IN  IF vis = Thrown THEN Thrown
        ELSE [station       |-> IF tokens # <<>> THEN tokens[1] ELSE <<>>,
              timestamp_z   |-> IF /\ Len(tokens) > 1
                                   /\ Len(tokens[2]) >= 5
                                   /\ tokens[2][Len(tokens[2])] = "Z"
                                THEN tokens[2] ELSE <<>>,
              wind          |-> parse_wind(tokens),
              visibility_sm |-> vis,
              ceiling_ft    |-> ceil.ceiling_ft,
              ceiling_layer |-> ceil.ceiling_layer,
              weather       |-> parse_weather(tokens)]

---------------------------------------------------------------------------
(* double arithmetic where rounding decides the result.  A Double is the   *)
(* exact value of an IEEE-754 binary64 number: its sign, its integer part  *)
(* and its bits after the binary point (no trailing 0).  A [num, den] of   *)
(* the decoders stands for the double nearest to num/den, which is what    *)
(* std::stod and the division of parse_fraction yield.  Values stay far    *)
(* from the subnormal and the overflow range.                              *)

\* bits of the significand of a double
MantissaBits == 53

Max(S) == CHOOSE x \in S : \A y \in S : y <= x

\* number of bits of n
BitLen(n) == IF n = 0 THEN 0 ELSE CHOOSE k \in 1..30 : 2^(k - 1) <= n /\ n < 2^k

\* bit k after the binary point
Bit(fb, k) == IF k <= Len(fb) THEN fb[k] ELSE 0

MkDouble(neg, ip, fb) ==
    LET ones == {i \in 1..Len(fb) : fb[i] = 1}
        kept == IF ones = {} THEN <<>> ELSE SubSeq(fb, 1, Max(ones))
    IN  [neg |-> neg /\ (ip # 0 \/ ones # {}), ip |-> ip, fb |-> kept]

\* round to nearest, ties to even, at MantissaBits significant bits
RoundDouble(neg, ip, fb) ==
    LET ones == {i \in 1..Len(fb) : fb[i] = 1}
        keep == IF ip > 0 THEN MantissaBits - BitLen(ip)
                ELSE IF ones = {} THEN 0
                ELSE Min(ones) - 1 + MantissaBits
    IN  IF Len(fb) <= keep THEN MkDouble(neg, ip, fb)
        ELSE LET guard  == fb[keep + 1]
                 sticky == \E i \in (keep + 2)..Len(fb) : fb[i] = 1
                 odd    == IF keep = 0 THEN ip % 2 = 1 ELSE fb[keep] = 1
                 zeros  == {i \in 1..keep : fb[i] = 0}
             IN  IF ~(guard = 1 /\ (sticky \/ odd))
                 THEN MkDouble(neg, ip, SubSeq(fb, 1, keep))
                 ELSE IF zeros = {} THEN MkDouble(neg, ip + 1, <<>>)
                 ELSE MkDouble(neg, ip,
                        [i \in 1..keep |-> IF i < Max(zeros) THEN fb[i]
                                           ELSE IF i = Max(zeros) THEN 1 ELSE 0])

\* the double nearest to num/den
DoubleOf(r) ==
    LET p  == Abs(r.num)
        q  == r.den
        ip == p \div q
        r0 == p % q
        lz == IF r0 = 0 THEN 0
              ELSE CHOOSE z \in 0..30 : r0 * 2^z < q /\ r0 * 2^(z + 1) >= q
        \* the bits kept and the bit after them
        n  == (IF ip > 0 THEN MantissaBits - BitLen(ip) ELSE lz + MantissaBits) + 1
        rem[k \in 0..n] == IF k = 0 THEN r0 ELSE (2 * rem[k - 1]) % q
        bits == [k \in 1..n |-> (2 * rem[k - 1]) \div q]
    IN  RoundDouble(r.num < 0, ip, IF rem[n] # 0 THEN bits \o <<1>> ELSE bits)

\* |x| < |y|
MagLess(x, y) ==
    \/ x.ip < y.ip
    \/ /\ x.ip = y.ip
       /\ \E k \in 1..Len(y.fb) :
            /\ Bit(x.fb, k) < y.fb[k]
            /\ \A m \in 1..(k - 1) : Bit(x.fb, m) = y.fb[m]

\* |x| - |y|, exactly, when |x| >= |y|
MagSub(x, y) ==
    LET n == IF Len(x.fb) > Len(y.fb) THEN Len(x.fb) ELSE Len(y.fb)
        borrow[j \in 0..n] ==
            IF j = n THEN 0
            ELSE IF Bit(x.fb, j + 1) - Bit(y.fb, j + 1) - borrow[j + 1] < 0 THEN 1 ELSE 0
    IN  [ip |-> x.ip - y.ip - borrow[0],
         fb |-> [j \in 1..n |-> (Bit(x.fb, j) - Bit(y.fb, j) - borrow[j] + 2) % 2]]

\* |x| + |y|, exactly
MagAdd(x, y) ==
    LET n == IF Len(x.fb) > Len(y.fb) THEN Len(x.fb) ELSE Len(y.fb)
        carry[j \in 0..n] ==
            IF j = n THEN 0
            ELSE IF Bit(x.fb, j + 1) + Bit(y.fb, j + 1) + carry[j + 1] > 1 THEN 1 ELSE 0
    IN  [ip |-> x.ip + y.ip + carry[0],
         fb |-> [j \in 1..n |-> (Bit(x.fb, j) + Bit(y.fb, j) + carry[j]) % 2]]

\* x - y in double
DoubleSub(x, y) ==
    IF x.neg # y.neg
    THEN RoundDouble(x.neg, MagAdd(x, y).ip, MagAdd(x, y).fb)
    ELSE IF MagLess(x, y)
    THEN RoundDouble(~x.neg, MagSub(y, x).ip, MagSub(y, x).fb)
    ELSE RoundDouble(x.neg, MagSub(x, y).ip, MagSub(x, y).fb)

DoubleNeg(x) == MkDouble(~x.neg, x.ip, x.fb)

\* x < y
DoubleLess(x, y) ==
    IF x.neg # y.neg THEN x.neg
    ELSE IF x.neg THEN MagLess(y, x) ELSE MagLess(x, y)

---------------------------------------------------------------------------
(* The text renderer: analyze_wind, analyze_metar.                         *)

\* what analyze_wind prints after the wind itself
analyze_wind(wind, runway_heading_deg, mn) ==
    LET comps == compute_wind_components(wind, runway_heading_deg)
    IN  IF ~wind.direction_deg.has THEN "variable direction"
        ELSE IF ~comps.has THEN "add --runway"
        ELSE IF RatLess(mn.max_crosswind_kt, fabs(comps.val.crosswind))
             THEN "EXCEEDS"
             ELSE "OK"

\* BELOW also for a visibility equal to the minimum
analyze_metar_leq(m, mn, runway_heading_deg) ==
    [wind       |-> analyze_wind(m.wind, runway_heading_deg, mn),
     visibility |-> IF m.visibility_sm.has
                    THEN IF ~RatLess(mn.min_visibility_sm, m.visibility_sm.val)
                         THEN "BELOW" ELSE "OK"
                    ELSE "N/A",
     ceiling    |-> IF m.ceiling_ft.has
                    THEN IF RatLess(RatInt(m.ceiling_ft.val), mn.min_ceiling_ft)
                         THEN "BELOW" ELSE "OK"
                    ELSE "No ceiling reported",
     weather    |-> m.weather]

\* the marks analyze_metar prints for wind, visibility and ceiling
analyze_metar(m, mn, runway_heading_deg) ==
    [wind       |-> analyze_wind(m.wind, runway_heading_deg, mn),
     visibility |-> IF m.visibility_sm.has
                    THEN IF RatLess(m.visibility_sm.val, mn.min_visibility_sm)
                         THEN "BELOW" ELSE "OK"
                    ELSE "N/A",
     ceiling    |-> IF m.ceiling_ft.has
                    THEN IF RatLess(RatInt(m.ceiling_ft.val), mn.min_ceiling_ft)
                         THEN "BELOW" ELSE "OK"
                    ELSE "No ceiling reported",
     weather    |-> m.weather]

---------------------------------------------------------------------------
(* The JSON renderer: the "alerts" object of print_metar_json.             *)

json_alerts_leq(m, mn, runway_heading_deg) ==
    LET comps2 == compute_wind_components(m.wind, runway_heading_deg)
    IN  (IF m.visibility_sm.has /\ ~RatLess(mn.min_visibility_sm, m.visibility_sm.val)
         THEN {"visibility"} ELSE {})
        \cup
        (IF m.ceiling_ft.has /\ RatLess(RatInt(m.ceiling_ft.val), mn.min_ceiling_ft)
         THEN {"ceiling"} ELSE {})
        \cup
        (IF comps2.has /\ RatLess(mn.max_crosswind_kt, fabs(comps2.val.crosswind))
         THEN {"crosswind"} ELSE {})

json_alerts_signed(m, mn, runway_heading_deg) ==
    LET comps2 == compute_wind_components(m.wind, runway_heading_deg)
    IN  (IF m.visibility_sm.has /\ RatLess(m.visibility_sm.val, mn.min_visibility_sm)
         THEN {"visibility"} ELSE {})
        \cup
        (IF m.ceiling_ft.has /\ RatLess(RatInt(m.ceiling_ft.val), mn.min_ceiling_ft)
         THEN {"ceiling"} ELSE {})
        \cup
        (IF comps2.has /\ RatLess(mn.max_crosswind_kt, comps2.val.crosswind)
         THEN {"crosswind"} ELSE {})

\* the keys written into "alerts" for report m
json_alerts(m, mn, runway_heading_deg) ==
    LET comps2 == compute_wind_components(m.wind, runway_heading_deg)
    IN  (IF m.visibility_sm.has /\ RatLess(m.visibility_sm.val, mn.min_visibility_sm)
         THEN {"visibility"} ELSE {})
        \cup
        (IF m.ceiling_ft.has /\ RatLess(RatInt(m.ceiling_ft.val), mn.min_ceiling_ft)
         THEN {"ceiling"} ELSE {})
        \cup
        (IF comps2.has /\ RatLess(mn.max_crosswind_kt, fabs(comps2.val.crosswind))
         THEN {"crosswind"} ELSE {})

print_metar_json(mets, mn, runway_heading_deg) ==
    [i \in 1..Len(mets) |-> [alerts |-> json_alerts(mets[i], mn, runway_heading_deg)]]

---------------------------------------------------------------------------
(* The trend over the first and the last report.                           *)

\* const double tol = 0.05
tol == DoubleOf(Rat(5, 100))

trend_word(delta) ==
    IF DoubleLess(tol, delta) THEN "improving"
    ELSE IF DoubleLess(delta, DoubleNeg(tol)) THEN "worsening"
    ELSE "steady"

\* the second report taken for the latest
TrendFields_second(mets) ==
    LET first == mets[1]
        last  == mets[2]
    IN  [visibility |->
            IF first.visibility_sm.has /\ last.visibility_sm.has
            THEN Some(trend_word(DoubleSub(DoubleOf(last.visibility_sm.val),
                                           DoubleOf(first.visibility_sm.val))))
            ELSE NullOpt,
         ceiling |->
            IF first.ceiling_ft.has /\ last.ceiling_ft.has
            THEN Some(trend_word(DoubleOf(RatInt(last.ceiling_ft.val - first.ceiling_ft.val))))
            ELSE NullOpt,
         wind |->
            IF first.wind.direction_deg.has /\ last.wind.direction_deg.has
            THEN Some([from |-> first.wind.direction_deg.val,
                       to   |-> last.wind.direction_deg.val])
            ELSE NullOpt]

TrendFields(mets) ==
    LET first == mets[1]
        last  == mets[Len(mets)]
    IN  [visibility |->
            IF first.visibility_sm.has /\ last.visibility_sm.has
            THEN Some(trend_word(DoubleSub(DoubleOf(last.visibility_sm.val),
                                           DoubleOf(first.visibility_sm.val))))
            ELSE NullOpt,
         ceiling |->
            IF first.ceiling_ft.has /\ last.ceiling_ft.has
            THEN Some(trend_word(DoubleOf(RatInt(last.ceiling_ft.val - first.ceiling_ft.val))))
            ELSE NullOpt,
         wind |->
            IF first.wind.direction_deg.has /\ last.wind.direction_deg.has
            THEN Some([from |-> first.wind.direction_deg.val,
                       to   |-> last.wind.direction_deg.val])
            ELSE NullOpt]

\* a trend for a single report as well
print_trend_json_one(mets) ==
    IF Len(mets) < 1 THEN NullOpt ELSE Some(TrendFields(mets))

\* NullOpt ("trend": null) when fewer than two reports, else the trend object
print_trend_json(mets) ==
    IF Len(mets) < 2 THEN NullOpt ELSE Some(TrendFields(mets))

\* the shift taken the short way round the compass
print_trend_text_wrap(mets) ==
    IF Len(mets) < 2 THEN NullOpt
    ELSE LET t == TrendFields(mets)
             d == ((t.wind.val.to - t.wind.val.from + 540) % 360) - 180
         IN  Some([visibility |-> t.visibility,
                   ceiling    |-> t.ceiling,
                   wind       |-> IF t.wind.has
                                  THEN Some([from  |-> t.wind.val.from,
                                             to    |-> t.wind.val.to,
                                             shift |-> IF d # 0 THEN Some(d) ELSE NullOpt])
                                  ELSE NullOpt])

\* NullOpt (nothing printed) when fewer than two reports, else the trend
\* section; the wind line carries the shift when it is not 0
print_trend_text(mets) ==
    IF Len(mets) < 2 THEN NullOpt
    ELSE LET t == TrendFields(mets)
         IN  Some([visibility |-> t.visibility,
                   ceiling    |-> t.ceiling,
                   wind       |-> IF t.wind.has
                                  THEN Some([from  |-> t.wind.val.from,
                                             to    |-> t.wind.val.to,
                                             shift |-> IF t.wind.val.to # t.wind.val.from
                                                       THEN Some(t.wind.val.to - t.wind.val.from)
                                                       ELSE NullOpt])
                                  ELSE NullOpt])

---------------------------------------------------------------------------
(* The history of a station: fetch_cycle_metars_for_hour and the for loop  *)
(* of fetch_metars_history.  files[h] is what fetch_url returns for the    *)
(* cycle file of hour h, as its lines, or NullOpt when the fetch fails.    *)

\* const int max_hours = 48
max_hours == 48

\* tm_hour runs over the hours of a day
HoursPerDay == 24

trim(s) ==
    LET keep == {i \in 1..Len(s) : ~isspace(s[i])}
    IN  IF keep = {} THEN <<>> ELSE SubSeq(s, Min(keep), Max(keep))

fetch_cycle_metars_for_hour(files, icao, hour_utc) ==
    LET content == files[hour_utc]
        target  == to_upper(icao)
        lines   == IF content.has
                   THEN [i \in 1..Len(content.val) |-> trim(content.val[i])]
                   ELSE <<>>
    IN  SelectSeq(lines, LAMBDA line : starts_with(line, target \o <<" ">>))

\* the inner loop with no test of the count
RECURSIVE AppendNew_nobreak(_, _, _)
AppendNew_nobreak(collected, hour_metars, desired_count) ==
    IF hour_metars = <<>> THEN collected
    ELSE AppendNew_nobreak(IF InSeq(Head(hour_metars), collected) THEN collected
                           ELSE Append(collected, Head(hour_metars)),
                           Tail(hour_metars), desired_count)

\* the inner loop: the lines of one cycle, appended unless already collected,
\* until desired_count lines are collected
RECURSIVE AppendNew(_, _, _)
AppendNew(collected, hour_metars, desired_count) ==
    IF hour_metars = <<>> \/ Len(collected) >= desired_count THEN collected
    ELSE AppendNew(IF InSeq(Head(hour_metars), collected) THEN collected
                   ELSE Append(collected, Head(hour_metars)),
                   Tail(hour_metars), desired_count)

\* std::reverse
Reverse(s) == [i \in 1..Len(s) |-> s[Len(s) + 1 - i]]

\* the hour of the day, `back` hours before now
HourBack(now_hour, back) == (now_hour - back) % HoursPerDay

---------------------------------------------------------------------------
(* Inputs.                                                                 *)

\* words joined by single spaces
RECURSIVE JoinSp(_)
JoinSp(words) ==
    IF words = <<>> THEN <<>>
    ELSE IF Len(words) = 1 THEN words[1]
    ELSE words[1] \o <<" ">> \o JoinSp(Tail(words))

\* a digit string too long for a double
LongDigits == [i \in 1..(MaxDoubleDigits + 1) |-> "9"]

RawLines ==
    { JoinSp(<<<<"K","J","F","K">>, <<"1","2","1","8","5","1","Z">>, <<"2","4","0","1","2","G","1","8","K","T">>, <<"1","0","S","M">>, <<"O","V","C","0","0","8">>, <<"B","K","N","0","1","5">>>>),
      JoinSp(<<<<"K","J","F","K">>, <<"1","2","1","9","5","1","Z">>, <<"2","0","0","2","0","K","T">>, <<"3","S","M">>, <<"B","K","N","0","1","0">>, <<"+","T","S","R","A">>>>),
      JoinSp(<<<<"k","j","f","k">>, <<"1","2","2","0","5","1","z">>, <<"v","r","b","0","5","k","t">>, <<"1">>, <<"1","/","2","s","m">>, <<"v","v","0","0","2">>>>),
      JoinSp(<<<<"K","J","F","K">>, <<"9","9","9","2","0","K","T">>, <<"2","S","M">>>>),
      JoinSp(<<<<"K","J","F","K">>, <<"1","2","1","8","5","1","Z">>, <<"2","7","0","3","0","K","T">>>>),
      JoinSp(<<<<"K","J","F","K">>, <<"1","2","2","1","5","1","Z">>, <<"0","0","0","0","0","K","T">>, <<"6","S","M">>, <<"F","E","W","0","2","0">>>>),
      JoinSp(<<<<"V","V">>, <<"O","V","C">>, <<"1","/","0","S","M">>, <<"S","M">>>>),
      JoinSp(<<<<"K","J","F","K">>, <<"1","2","Z">>, LongDigits \o <<"S","M">>>>),
      <<>>,
      <<" ", "\t", " ">> }

\* up to n report lines
RawSeqs(n) == UNION {[1..k -> RawLines] : k \in 1..n}

MinimaSet ==
    { [min_ceiling_ft |-> RatInt(1000), min_visibility_sm |-> RatInt(3),
       max_crosswind_kt |-> RatInt(15)],
      [min_ceiling_ft |-> RatInt(500), min_visibility_sm |-> Rat(3, 2),
       max_crosswind_kt |-> RatInt(25)] }

Headings == {0, 220, 360}

VisTokens ==
    { <<"1","0","S","M">>, <<"1","/","2","S","M">>, <<"3","S","M">>, <<"0","S","M">>, <<"M","1","/","4","S","M">>, <<"1","/","0","S","M">>, <<"S","M">>,
      <<"1">>, <<"2">>, <<"X">> }

WindTokens ==
    { <<"V","R","B","0","5","K","T">>, <<"2","4","0","1","2","G","1","8","K","T">>, <<"0","0","0","0","0","K","T">>, <<"V","R","B","0","0","K","T">>, <<"9","9","9","1","5","K","T">>,
      <<"2","4","0","1","0","0","G","1","2","0","K","T">>, <<"2","4","0","1","8","G","1","2","K","T">>, <<"2","4","0","1","K","T">>, <<"2","4","0","1","2","G","1","K","T">>,
      <<"2","4","0","1","2","K","T","X">>, <<"X","2","4","0","1","2","K","T">>, <<"2","4","0","1","2","G","1","8">>, <<"1","0","S","M">> }

\* all sequences of at most n tokens out of S
TokenSeqs(S, n) == UNION {[1..k -> S] : k \in 0..n}

\* the groups dddssKT with ddd in 000..MaxDir and ss in 00..MaxSpeed
Digits3(n) ==
    <<DigitChars[((n \div 100) % 10) + 1], DigitChars[((n \div 10) % 10) + 1],
      DigitChars[(n % 10) + 1]>>

Digits2(n) ==
    IF n < 100
    THEN <<DigitChars[((n \div 10) % 10) + 1], DigitChars[(n % 10) + 1]>>
    ELSE Digits3(n)

WindGroup(d, s) == Digits3(d) \o Digits2(s) \o <<"K","T">>

WindGroups == {WindGroup(d, s) : d \in 0..MaxDir, s \in 0..MaxSpeed}

---------------------------------------------------------------------------
(* main: decode every raw line, then render as JSON or as text.            *)

Pending == [pending |-> TRUE]

Init ==
    /\ pc = "decode"
    /\ metar_raws \in RawSeqs(MaxReports)
    /\ minima \in MinimaSet
    /\ runway_heading \in Headings
    /\ format \in {"Text", "Json"}
    /\ decoded = <<>>
    /\ idx = 1
    /\ out_json = <<>>
    /\ out_text = <<>>
    /\ trend_json = Pending
    /\ trend_text = Pending
    /\ arg = <<>>
    /\ ret = Pending

\* one turn of the loop decoded.push_back(decode_metar(raw)); an exception
\* leaves main
DecodeMetar ==
    /\ pc = "decode"
    /\ LET m == decode_metar(metar_raws[Len(decoded) + 1])
       IN  IF m = Thrown
           THEN /\ pc' = "terminated"
                /\ UNCHANGED decoded
           ELSE /\ decoded' = Append(decoded, m)
                /\ pc' = IF Len(decoded) + 1 < Len(metar_raws) THEN "decode"
                         ELSE IF format = "Json" THEN "json_metars"
                         ELSE "text_metar"
    /\ UNCHANGED <<metar_raws, minima, runway_heading, format, idx, out_json,
                   out_text, trend_json, trend_text, arg, ret>>

PrintMetarJson ==
    /\ pc = "json_metars"
    /\ out_json' = print_metar_json(decoded, minima, runway_heading)
    /\ pc' = "json_trend"
    /\ UNCHANGED <<metar_raws, minima, runway_heading, format, decoded, idx,
                   out_text, trend_json, trend_text, arg, ret>>

PrintTrendJson ==
    /\ pc = "json_trend"
    /\ trend_json' = print_trend_json(decoded)
    /\ pc' = "done"
    /\ UNCHANGED <<metar_raws, minima, runway_heading, format, decoded, idx,
                   out_json, out_text, trend_text, arg, ret>>

\* one turn of the text loop
AnalyzeMetar ==
    /\ pc = "text_metar"
    /\ out_text' = Append(out_text, analyze_metar(decoded[idx], minima, runway_heading))
    /\ idx' = idx + 1
    /\ pc' = IF idx < Len(decoded) THEN "text_metar" ELSE "text_trend"
    /\ UNCHANGED <<metar_raws, minima, runway_heading, format, decoded,
                   out_json, trend_json, trend_text, arg, ret>>

PrintTrendText ==
    /\ pc = "text_trend"
    /\ trend_text' = print_trend_text(decoded)
    /\ pc' = "done"
    /\ UNCHANGED <<metar_raws, minima, runway_heading, format, decoded, idx,
                   out_json, out_text, trend_json, arg, ret>>

Next ==
    \/ DecodeMetar
    \/ PrintMetarJson
    \/ PrintTrendJson
    \/ AnalyzeMetar
    \/ PrintTrendText

Spec == Init /\ [][Next]_vars

---------------------------------------------------------------------------
(* Unit harnesses: one call of a decoder on a token vector.                *)

UnitInit(inputs) ==
    /\ pc = "call"
    /\ arg \in inputs
    /\ ret = Pending
    /\ metar_raws = <<>>
    /\ minima = [min_ceiling_ft |-> RatInt(1000), min_visibility_sm |-> RatInt(3),
                 max_crosswind_kt |-> RatInt(15)]
    /\ runway_heading = 0
    /\ format = "Text"
    /\ decoded = <<>>
    /\ idx = 1
    /\ out_json = <<>>
    /\ out_text = <<>>
    /\ trend_json = Pending
    /\ trend_text = Pending

UnitFrame ==
    UNCHANGED <<metar_raws, minima, runway_heading, format, decoded, idx,
                out_json, out_text, trend_json, trend_text, arg>>

CallParseVisibility ==
    /\ pc = "call"
    /\ ret' = parse_visibility_sm(arg)
    /\ pc' = "return"
    /\ UnitFrame

CallParseWind ==
    /\ pc = "call"
    /\ ret' = parse_wind(arg)
    /\ pc' = "return"
    /\ UnitFrame

InitVis == UnitInit(TokenSeqs(VisTokens, MaxVisTokens))

SpecVis == InitVis /\ [][CallParseVisibility]_vars

InitWind == UnitInit(TokenSeqs(WindTokens, MaxWindTokens))

SpecWind == InitWind /\ [][CallParseWind]_vars

InitRoundTrip == UnitInit({<<g>> : g \in WindGroups})

SpecRoundTrip == InitRoundTrip /\ [][CallParseWind]_vars

CeilTokens ==
    { <<"O","V","C","0","0","8">>, <<"B","K","N","0","1","5">>, <<"B","K","N","0","0","8">>, <<"V","V","0","0","2">>, <<"B","K","N","0","1","5","C","B">>, <<"O","V","C","5">>,
      <<"B","K","N","0","8">>, <<"B","K","N","/","/","/">>, <<"F","E","W","0","0","5">>, <<"S","C","T","0","0","3">>, <<"C","L","R">>, <<"O","V","C","0","0","0","1">> }

CallParseCeiling ==
    /\ pc = "call"
    /\ ret' = parse_ceiling_ft(arg)
    /\ pc' = "return"
    /\ UnitFrame

InitCeiling == UnitInit(TokenSeqs(CeilTokens, MaxCeilTokens))

SpecCeiling == InitCeiling /\ [][CallParseCeiling]_vars

WxTokens ==
    { <<"+","T","S","R","A">>, <<"-","R","A">>, <<"B","R">>, <<"K","B","R","O">>, <<"F","G">>, <<"V","C","S","H">>, <<"S","G","S","N">>,
      <<"H","Z","F","U">>, <<"P","L","D","Z">>, <<"1","0","S","M">> }

CallParseWeather ==
    /\ pc = "call"
    /\ ret' = parse_weather(arg)
    /\ pc' = "return"
    /\ UnitFrame

InitWeather == UnitInit(TokenSeqs(WxTokens, MaxWxTokens))

SpecWeather == InitWeather /\ [][CallParseWeather]_vars

DecodeTokens ==
    { <<"k","j","f","k">>, <<"K","B","R","O">>, <<"1","8","5","1","Z">>, <<"8","5","1","Z">>, <<"1","2","1","8","5","1","z">>, <<"1","2","1","8","5">>,
      <<"O","V","C","0","0","8">>, <<"1","0","S","M">>, <<"2","4","0","1","2","K","T">> }

\* lines of tokens joined by spaces, and lines of nothing but white space
DecodeLines ==
    {JoinSp(w) : w \in TokenSeqs(DecodeTokens, MaxDecodeTokens)}
        \cup {<<" ">>, <<" ", "\t", " ">>}

CallDecodeMetar ==
    /\ pc = "call"
    /\ ret' = decode_metar(arg)
    /\ pc' = "return"
    /\ UnitFrame

InitDecode == UnitInit(DecodeLines)

SpecDecode == InitDecode /\ [][CallDecodeMetar]_vars

\* winds as parse_wind returns them: no direction, or any three digits
ComponentWinds ==
    { [direction_deg |-> d, speed_kt |-> s, gust_kt |-> g] :
        d \in {NullOpt} \cup {Some(n) : n \in 0..MaxWindDir}, s \in {0, 20},
        g \in {NullOpt, Some(35)} }

\* runway headings as std::stoi returns them from --runway
ComponentHeadings == {-90, 0, 1, 90, 220, 360}

CallComputeWindComponents ==
    /\ pc = "call"
    /\ ret' = compute_wind_components(arg.wind, arg.heading)
    /\ pc' = "return"
    /\ UnitFrame

InitComponents ==
    UnitInit([wind : ComponentWinds, heading : ComponentHeadings])

SpecComponents == InitComponents /\ [][CallComputeWindComponents]_vars

\* a decoded report with the three fields the trend reads
TrendReport(vis, ceil, dir) ==
    [station       |-> <<"K","J","F","K">>,
     timestamp_z   |-> <<"1","2","1","8","5","1","Z">>,
     wind          |-> [direction_deg |-> dir, speed_kt |-> 10, gust_kt |-> NullOpt],
     visibility_sm |-> vis,
     ceiling_ft    |-> ceil,
     ceiling_layer |-> IF ceil.has THEN <<"O","V","C">> ELSE <<>>,
     weather       |-> <<>>]

\* visibilities as 5SM, 2SM, 101/50SM, 6SM, 1SM, 21/20SM and 41/20SM give them
TrendReports ==
    { TrendReport(Some(RatInt(5)),     Some(800),  Some(350)),
      TrendReport(Some(RatInt(2)),     Some(1500), Some(10)),
      TrendReport(Some(Rat(101, 50)),  Some(800),  Some(10)),
      TrendReport(Some(RatInt(6)),     Some(1500), Some(350)),
      TrendReport(Some(RatInt(1)),     NullOpt,    NullOpt),
      TrendReport(Some(Rat(21, 20)),   NullOpt,    Some(350)),
      TrendReport(Some(Rat(41, 20)),   Some(800),  NullOpt),
      TrendReport(NullOpt,             Some(1500), NullOpt),
      TrendReport(NullOpt,             NullOpt,    NullOpt) }

CallPrintTrendJson ==
    /\ pc = "call"
    /\ trend_json = Pending
    /\ trend_json' = print_trend_json(arg)
    /\ pc' = IF trend_text = Pending THEN "call" ELSE "return"
    /\ UNCHANGED <<metar_raws, minima, runway_heading, format, decoded, idx,
                   out_json, out_text, trend_text, arg, ret>>

CallPrintTrendText ==
    /\ pc = "call"
    /\ trend_text = Pending
    /\ trend_text' = print_trend_text(arg)
    /\ pc' = IF trend_json = Pending THEN "call" ELSE "return"
    /\ UNCHANGED <<metar_raws, minima, runway_heading, format, decoded, idx,
                   out_json, out_text, trend_json, arg, ret>>

InitTrend == UnitInit(TokenSeqs(TrendReports, MaxTrendReports))

SpecTrend == InitTrend /\ [][CallPrintTrendJson \/ CallPrintTrendText]_vars

FileLines ==
    [a |-> <<"K","J","F","K"," ","1","2","1","8","5","1","Z"," ","1","0","S","M">>,
     b |-> <<"K","J","F","K"," ","1","2","1","9","1","3","Z"," ","3","S","M">>,
     c |-> <<" ">> \o <<"K","J","F","K"," ","1","2","1","7","5","1","Z"," ","5","S","M">> \o <<"\r">>,
     x |-> <<"K","B","O","S"," ","1","2","1","8","5","4","Z"," ","1","0","S","M">>,
     y |-> <<"K","J","F","K","X"," ","1","2","1","8","5","1","Z">>]

\* what a cycle file can hold: its lines oldest first, or nothing fetched
CycleContents ==
    { NullOpt,
      Some(<<>>),
      Some(<<FileLines.a>>),
      Some(<<FileLines.x, FileLines.a, FileLines.b>>),
      Some(<<FileLines.c, FileLines.y>>),
      Some(<<FileLines.c, FileLines.a>>),
      Some(<<FileLines.b, FileLines.b>>) }

\* the cycle files of the latest three hours; the older ones hold nothing
\* of the station
CycleFiles(now_hour) ==
    { [h \in 0..(HoursPerDay - 1) |->
            IF h = HourBack(now_hour, 0) THEN f0
            ELSE IF h = HourBack(now_hour, 1) THEN f1
            ELSE IF h = HourBack(now_hour, 2) THEN f2
            ELSE Some(<<FileLines.x>>)] :
        f0 \in CycleContents, f1 \in CycleContents, f2 \in CycleContents }

\* the locals of fetch_metars_history are kept in ret: collected and back
FetchEnter ==
    /\ pc = "call"
    /\ ret' = [collected |-> <<>>, back |-> 0]
    /\ pc' = "loop"
    /\ UnitFrame

\* one pass of the for loop
FetchCycle ==
    /\ pc = "loop"
    /\ ret.back < max_hours
    /\ Len(ret.collected) < arg.desired_count
    /\ LET hour_metars == fetch_cycle_metars_for_hour(arg.files, arg.icao,
                              HourBack(arg.now_hour, ret.back))
       IN  ret' = [collected |-> AppendNew(ret.collected, hour_metars,
                                           arg.desired_count),
                   back      |-> ret.back + 1]
    /\ pc' = "loop"
    /\ UnitFrame

\* the loop left: collected is reversed and returned
FetchReturn ==
    /\ pc = "loop"
    /\ ~(ret.back < max_hours /\ Len(ret.collected) < arg.desired_count)
    /\ ret' = [collected |-> Reverse(ret.collected), back |-> ret.back]
    /\ pc' = "return"
    /\ UnitFrame

InitFetch ==
    UnitInit({ [files |-> f, icao |-> <<"k","j","f","k">>, now_hour |-> 1, desired_count |-> n] :
                 f \in CycleFiles(1), n \in 1..MaxDesiredCount })

SpecFetch == InitFetch /\ [][FetchEnter \/ FetchCycle \/ FetchReturn]_vars

---------------------------------------------------------------------------
(* Properties.                                                             *)

\* the reports main has rendered so far, in either format
RenderedJson == 1..Len(out_json)

RenderedText == 1..Len(out_text)

\* C1: decode_metar returns a decoded report for every input line: main
\* never leaves the decoding loop through an exception, and past the loop
\* there is one decoded report per raw line.
C1_DecodeNeverFails ==
    /\ pc # "terminated"
    /\ pc # "decode" => Len(decoded) = Len(metar_raws)

\* C2: an absent visibility or ceiling, or unavailable wind components, give
\* no alert, and what the evaluator reports for the absent field differs
\* from what it reports for a present field that meets the minimum; for the
\* text analysis and for the JSON alerts object alike.
C2_AbsentIsNeitherAlertNorPass ==
    LET passVis(m)  == [m EXCEPT !.visibility_sm = Some(RatAdd(minima.min_visibility_sm, RatInt(1)))]
        passCeil(m) == [m EXCEPT !.ceiling_ft = Some(100000)]
        calm(m)     == [m EXCEPT !.wind = [direction_deg |-> Some(220), speed_kt |-> 0,
                                           gust_kt |-> NullOpt]]
        entry(alerts, key) == IF key \in alerts THEN "alert" ELSE "no entry"
    IN  /\ \A i \in RenderedText :
              /\ ~decoded[i].visibility_sm.has =>
                    /\ out_text[i].visibility # "BELOW"
                    /\ out_text[i].visibility #
                          analyze_metar(passVis(decoded[i]), minima, runway_heading).visibility
              /\ ~decoded[i].ceiling_ft.has =>
                    /\ out_text[i].ceiling # "BELOW"
                    /\ out_text[i].ceiling #
                          analyze_metar(passCeil(decoded[i]), minima, runway_heading).ceiling
              /\ ~compute_wind_components(decoded[i].wind, runway_heading).has =>
                    /\ out_text[i].wind # "EXCEEDS"
                    /\ out_text[i].wind # analyze_metar(calm(decoded[i]), minima, 220).wind
        /\ \A i \in RenderedJson :
              /\ ~decoded[i].visibility_sm.has =>
                    /\ "visibility" \notin out_json[i].alerts
                    /\ entry(out_json[i].alerts, "visibility") #
                          entry(json_alerts(passVis(decoded[i]), minima, runway_heading),
                                "visibility")
              /\ ~decoded[i].ceiling_ft.has =>
                    /\ "ceiling" \notin out_json[i].alerts
                    /\ entry(out_json[i].alerts, "ceiling") #
                          entry(json_alerts(passCeil(decoded[i]), minima, runway_heading),
                                "ceiling")
              /\ ~compute_wind_components(decoded[i].wind, runway_heading).has =>
                    /\ "crosswind" \notin out_json[i].alerts
                    /\ entry(out_json[i].alerts, "crosswind") #
                          entry(json_alerts(calm(decoded[i]), minima, 220), "crosswind")

\* C3: in both renderers the visibility alert is raised exactly when the
\* visibility is present and strictly below min_visibility_sm, the ceiling
\* alert exactly when the ceiling is present and strictly below
\* min_ceiling_ft; each looks at its own field and threshold only.
C3_BelowMinimaAlerts ==
    LET visBelow(m) ==
            /\ m.visibility_sm.has
            /\ m.visibility_sm.val.num * minima.min_visibility_sm.den
                  < minima.min_visibility_sm.num * m.visibility_sm.val.den
        ceilBelow(m) ==
            /\ m.ceiling_ft.has
            /\ m.ceiling_ft.val * minima.min_ceiling_ft.den < minima.min_ceiling_ft.num
    IN  /\ \A i \in RenderedJson :
              /\ "visibility" \in out_json[i].alerts <=> visBelow(decoded[i])
              /\ "ceiling" \in out_json[i].alerts <=> ceilBelow(decoded[i])
        /\ \A i \in RenderedText :
              /\ out_text[i].visibility = "BELOW" <=> visBelow(decoded[i])
              /\ out_text[i].ceiling = "BELOW" <=> ceilBelow(decoded[i])

\* a report whose visibility and ceiling equal the minima raises neither
\* alert, while another raises the ceiling alert but not the visibility one
C3_Witness ==
    /\ pc = "done"
    /\ \E i, j \in RenderedJson :
          /\ decoded[i].visibility_sm = Some(minima.min_visibility_sm)
          /\ decoded[i].ceiling_ft.has
          /\ RatInt(decoded[i].ceiling_ft.val) = minima.min_ceiling_ft
          /\ out_json[i].alerts \cap {"visibility", "ceiling"} = {}
          /\ decoded[j].visibility_sm.has
          /\ out_json[j].alerts \cap {"visibility", "ceiling"} = {"ceiling"}

\* the crosswind of report m in units of 1/SinScale, by the formula
\* speed x sin(angle between wind direction and runway heading)
CrosswindScaled(m) ==
    SinDeg(angle_diff(m.wind.direction_deg.val, runway_heading)) * m.wind.speed_kt

\* C4: in both renderers the crosswind alert is raised exactly when the wind
\* direction is present, the runway heading is not 0 and the magnitude of
\* the crosswind is strictly above max_crosswind_kt, whatever its sign.
C4_CrosswindAlert ==
    LET exceeds(m) ==
            /\ m.wind.direction_deg.has
            /\ runway_heading # 0
            /\ Abs(CrosswindScaled(m)) * minima.max_crosswind_kt.den
                  > minima.max_crosswind_kt.num * SinScale
    IN  /\ \A i \in RenderedJson :
              "crosswind" \in out_json[i].alerts <=> exceeds(decoded[i])
        /\ \A i \in RenderedText :
              out_text[i].wind = "EXCEEDS" <=> exceeds(decoded[i])

\* a negative crosswind whose magnitude exceeds the maximum raised the alert
C4_Witness ==
    \E i \in RenderedJson :
        /\ decoded[i].wind.direction_deg.has
        /\ runway_heading # 0
        /\ CrosswindScaled(decoded[i]) < 0
        /\ "crosswind" \in out_json[i].alerts

\* tok is <dir><speed>[G<gust>]KT with sl speed digits and gl gust digits
\* (gl = 0: no G group)
IsWindGroup(tok, sl, gl) ==
    /\ sl \in {2, 3}
    /\ gl \in {0, 2, 3}
    /\ Len(tok) = 3 + sl + (IF gl = 0 THEN 0 ELSE 1 + gl) + 2
    /\ tok = SubSeq(tok, 1, 3) \o SubSeq(tok, 4, 3 + sl)
               \o (IF gl = 0 THEN <<>> ELSE <<"G">> \o SubSeq(tok, 5 + sl, 4 + sl + gl))
               \o <<"K","T">>
    /\ SubSeq(tok, 1, 3) = <<"V","R","B">> \/ \A k \in 1..3 : isdigit(tok[k])
    /\ \A k \in 4..(3 + sl) : isdigit(tok[k])
    /\ gl > 0 => \A k \in (5 + sl)..(4 + sl + gl) : isdigit(tok[k])

WindGroupShapes == {2, 3} \X {0, 2, 3}

IsWind(tok) == \E sh \in WindGroupShapes : IsWindGroup(tok, sh[1], sh[2])

\* C5: parse_wind returns the decoding of the lowest-index token that is a
\* wind group: direction absent for VRB and else the three digits' number,
\* speed the speed digits' number, gust present exactly when the G group
\* is, with the gust digits' number.
C5_FirstWindGroup ==
    pc = "return" /\ (\E i \in 1..Len(arg) : IsWind(arg[i])) =>
        LET i   == Min({k \in 1..Len(arg) : IsWind(arg[k])})
            tok == arg[i]
            sh  == CHOOSE s \in WindGroupShapes : IsWindGroup(tok, s[1], s[2])
        IN  /\ ret.direction_deg =
                  (IF SubSeq(tok, 1, 3) = <<"V","R","B">> THEN NullOpt
                   ELSE Some(DigitsValue(SubSeq(tok, 1, 3))))
            /\ ret.speed_kt = DigitsValue(SubSeq(tok, 4, 3 + sh[1]))
            /\ ret.gust_kt =
                  (IF sh[2] = 0 THEN NullOpt
                   ELSE Some(DigitsValue(SubSeq(tok, 5 + sh[1], 4 + sh[1] + sh[2]))))

\* two wind groups in a row: the first one is decoded
C5_Witness ==
    /\ pc = "return"
    /\ arg = <<<<"V","R","B","0","5","K","T">>, <<"2","4","0","1","2","G","1","8","K","T">>>>
    /\ ret = [direction_deg |-> NullOpt, speed_kt |-> 5, gust_kt |-> NullOpt]

\* C6: the WindInfo decoded from a wind group that reports calm (speed 00)
\* differs from the WindInfo returned when no token matches.
C6_CalmIsNotUnknown ==
    pc = "return" /\ (\E i \in 1..Len(arg) : IsWind(arg[i])) =>
        LET tok == arg[Min({k \in 1..Len(arg) : IsWind(arg[k])})]
            sh  == CHOOSE s \in WindGroupShapes : IsWindGroup(tok, s[1], s[2])
        IN  DigitsValue(SubSeq(tok, 4, 3 + sh[1])) = 0 => ret # parse_wind(<<>>)

\* direction as three and speed as at least two zero-padded digits, then KT
EncodeWind(direction, speed) == Digits3(direction) \o Digits2(speed) \o <<"K","T">>

\* C7: decoding a group dddssKT and encoding the decoded direction and
\* speed again gives the group back.
C7_WindRoundTrip ==
    pc = "return" =>
        /\ ret.direction_deg.has
        /\ EncodeWind(ret.direction_deg.val, ret.speed_kt) = arg[1]

\* a group with leading zeros in both fields came back
C7_Witness ==
    /\ pc = "return"
    /\ arg = <<<<"0","0","7","0","5","K","T">>>>
    /\ ret.direction_deg = Some(7)
    /\ ret.speed_kt = 5
    /\ EncodeWind(7, 5) = arg[1]

HasSM(tok) == \E p \in 1..(Len(tok) - 1) : tok[p] = "S" /\ tok[p + 1] = "M"

\* the part of tok before its first "SM"
Prefix(tok) == SubSeq(tok, 1, Min({p \in 1..(Len(tok) - 1) : tok[p] = "S" /\ tok[p + 1] = "M"}) - 1)

AllDigits(s) == s # <<>> /\ \A k \in 1..Len(s) : isdigit(s[k])

\* s is N/D, digits on both sides of its one slash
IsFraction(s) ==
    \E p \in 1..Len(s) :
        /\ s[p] = "/"
        /\ AllDigits(SubSeq(s, 1, p - 1))
        /\ AllDigits(SubSeq(s, p + 1, Len(s)))

Numerator(s) == DigitsValue(SubSeq(s, 1, (CHOOSE p \in 1..Len(s) : s[p] = "/") - 1))

Denominator(s) == DigitsValue(SubSeq(s, (CHOOSE p \in 1..Len(s) : s[p] = "/") + 1, Len(s)))

\* C8: the visibility is the value of the SM token's prefix: N for a plain
\* number N, N/D for a fraction, W + N/D for a fraction preceded by a
\* standalone integer token W (stated for the first SM token, values > 0).
C8_ValueFromPrefix ==
    pc = "return" /\ (\E i \in 1..Len(arg) : HasSM(arg[i])) =>
        LET i    == Min({k \in 1..Len(arg) : HasSM(arg[k])})
            part == Prefix(arg[i])
            lead == i > 1 /\ AllDigits(arg[i - 1])
        IN  /\ AllDigits(part) /\ DigitsValue(part) > 0 =>
                  ret = Some(RatInt(DigitsValue(part)))
            /\ IsFraction(part) /\ Numerator(part) > 0 /\ Denominator(part) > 0 =>
                  ret = Some(Rat((IF lead THEN DigitsValue(arg[i - 1]) ELSE 0)
                                     * Denominator(part) + Numerator(part),
                                 Denominator(part)))

\* C9: the token before the SM token is added only to a fraction-only SM
\* token: before a plain number N the result stays N, and before an SM
\* token with an empty or unparseable prefix nothing is returned for it
\* (stated for token vectors whose only SM token is the one in question).
C9_LeadOnlyForFraction ==
    pc = "return" =>
        \A i \in 2..Len(arg) :
            /\ HasSM(arg[i])
            /\ \A k \in 1..Len(arg) : k # i => ~HasSM(arg[k])
            /\ AllDigits(arg[i - 1])
            /\ ~IsFraction(Prefix(arg[i]))
            => IF AllDigits(Prefix(arg[i])) /\ DigitsValue(Prefix(arg[i])) > 0
               THEN ret = Some(RatInt(DigitsValue(Prefix(arg[i]))))
               ELSE ret = NullOpt

\* whether the prefix of SM token tok is a number or fraction greater than 0
PositivePrefix(tok) ==
    \/ AllDigits(Prefix(tok)) /\ DigitsValue(Prefix(tok)) > 0
    \/ IsFraction(Prefix(tok)) /\ Numerator(Prefix(tok)) > 0
                               /\ Denominator(Prefix(tok)) > 0

\* C10: a returned visibility is strictly greater than 0; SM tokens whose
\* total is 0 are passed over, so a later SM token with a positive value is
\* still found; and with no SM token at all the visibility is absent.
C10_VisibilityPositive ==
    pc = "return" /\ ret # Thrown =>
        /\ ret.has => ret.val.num > 0 /\ ret.val.den > 0
        /\ (\E i \in 1..Len(arg) : HasSM(arg[i]) /\ PositivePrefix(arg[i])) => ret.has
        /\ (\A i \in 1..Len(arg) : ~HasSM(arg[i])) => ret = NullOpt

\* two SM tokens with total 0 were passed over and the third was returned
C10_Witness ==
    /\ pc = "return"
    /\ arg = <<<<"0","S","M">>, <<"M","1","/","4","S","M">>, <<"1","0","S","M">>>>
    /\ ret = Some(RatInt(10))

\* tok is OVC, BKN or VV followed by exactly three digits (and then no
\* further digit); LayerCode and LayerHeight are its two parts
LayerCode(tok) ==
    IF Len(tok) >= 2 /\ SubSeq(tok, 1, 2) = <<"V","V">> THEN <<"V","V">>
    ELSE IF Len(tok) >= 3 /\ SubSeq(tok, 1, 3) \in {<<"O","V","C">>, <<"B","K","N">>} THEN SubSeq(tok, 1, 3)
    ELSE <<>>

IsLayer(tok) ==
    LET n == Len(LayerCode(tok))
    IN  /\ n > 0
        /\ Len(tok) >= n + 3
        /\ \A k \in (n + 1)..(n + 3) : isdigit(tok[k])
        /\ Len(tok) > n + 3 => ~isdigit(tok[n + 4])

LayerHeight(tok) ==
    100 * DigitsValue(SubSeq(tok, Len(LayerCode(tok)) + 1, Len(LayerCode(tok)) + 3))

\* C11: parse_ceiling_ft returns the least height over the qualifying layer
\* tokens, whatever their order, with the layer code (OVC, BKN or VV) of the
\* first token of that height; with no qualifying token the ceiling is
\* absent.
C11_LowestLayer ==
    pc = "return" =>
        LET layers == {k \in 1..Len(arg) : IsLayer(arg[k])}
            lowest == Min({LayerHeight(arg[k]) : k \in layers})
            first  == Min({k \in layers : LayerHeight(arg[k]) = lowest})
        IN  IF layers = {}
            THEN ~ret.ceiling_ft.has
            ELSE /\ ret.ceiling_ft = Some(lowest)
                 /\ ret.ceiling_layer = LayerCode(arg[first])

\* C12: a ceiling, when present, has layer code OVC, BKN or VV and a height
\* that is a non-negative multiple of 100.
C12_LayerCodeAndHeight ==
    pc = "return" /\ ret.ceiling_ft.has =>
        /\ ret.ceiling_layer \in {<<"O","V","C">>, <<"B","K","N">>, <<"V","V">>}
        /\ ret.ceiling_ft.val >= 0
        /\ ret.ceiling_ft.val % 100 = 0

\* C13: a ceiling is returned exactly when some token is OVC, BKN or VV
\* followed by exactly three digits; tokens with fewer digits, with
\* non-digits, or with a clear / few / scattered code contribute nothing.
C13_ExactlyThreeDigits ==
    pc = "return" =>
        (ret.ceiling_ft.has <=> \E k \in 1..Len(arg) : IsLayer(arg[k]))

\* the two-letter codes and the name of each
WxCodes ==
    { <<"T","S">>, <<"R","A">>, <<"D","Z">>, <<"S","N">>, <<"S","G">>, <<"P","L">>, <<"F","G">>, <<"B","R">>, <<"H","Z">>,
      <<"F","U">>, <<"S","H">> }

WxName(code) ==
    CASE code = <<"T","S">> -> "thunderstorm"
      [] code = <<"R","A">> -> "rain"
      [] code = <<"D","Z">> -> "drizzle"
      [] code = <<"S","N">> -> "snow"
      [] code = <<"S","G">> -> "snow grains"
      [] code = <<"P","L">> -> "ice pellets"
      [] code = <<"F","G">> -> "fog"
      [] code = <<"B","R">> -> "mist"
      [] code = <<"H","Z">> -> "haze"
      [] code = <<"F","U">> -> "smoke"
      [] code = <<"S","H">> -> "showers"

\* the positions p of tok at which the two-letter code stands
CodeAt(tok, code) ==
    {p \in 1..(Len(tok) - 1) : tok[p] = code[1] /\ tok[p + 1] = code[2]}

\* C14: the names returned are exactly those whose code stands somewhere
\* in at least one token.
C14_ExactlyTheCodesPresent ==
    pc = "return" =>
        {ret[k] : k \in 1..Len(ret)} =
            {WxName(c) : c \in {d \in WxCodes :
                                   \E i \in 1..Len(arg) : CodeAt(arg[i], d) # {}}}

\* a combined token gave both of its phenomena
C14_Witness ==
    /\ pc = "return"
    /\ arg = <<<<"+","T","S","R","A">>>>
    /\ {ret[k] : k \in 1..Len(ret)} = {"thunderstorm", "rain"}

\* where in the text (token, then position in it) a code is first seen, as
\* one number
FirstSeen(tokens, code) ==
    LET i == Min({k \in 1..Len(tokens) : CodeAt(tokens[k], code) # {}})
    IN  i * 1000 + Min(CodeAt(tokens[i], code))

\* C15: the list holds no name twice, and a name whose code is first seen
\* earlier in the text stands earlier in the list.
C15_FirstSeenOrder ==
    pc = "return" =>
        /\ \A j, k \in 1..Len(ret) : ret[j] = ret[k] => j = k
        /\ \A a, b \in WxCodes :
              \A j, k \in 1..Len(ret) :
                  /\ ret[j] = WxName(a)
                  /\ ret[k] = WxName(b)
                  /\ FirstSeen(arg, a) < FirstSeen(arg, b)
                  => j < k


\* the tokens of a line, in upper case
UpperTokens(raw) ==
    LET toks == split_tokens(raw)
    IN  [i \in 1..Len(toks) |-> [j \in 1..Len(toks[i]) |-> toupper(toks[i][j])]]

\* whether the second token of a line is a timestamp
HasTimestamp(toks) ==
    /\ Len(toks) >= 2
    /\ Len(toks[2]) >= 5
    /\ toks[2][Len(toks[2])] = "Z"

\* C16: the station of a decoded report is the first token of the line in
\* upper case (empty when the line has no token), and the timestamp is the
\* second token exactly when that token has at least 5 characters and ends
\* in Z; otherwise the timestamp is absent (empty).
C16_StationAndTimestamp ==
    pc = "return" =>
        LET toks == UpperTokens(arg)
        IN  /\ ret.station = (IF Len(toks) = 0 THEN <<>> ELSE toks[1])
            /\ ret.timestamp_z = (IF HasTimestamp(toks) THEN toks[2] ELSE <<>>)

C16_Witness ==
    /\ pc = "return"
    /\ arg = <<"k","j","f","k"," ","1","8","5","1","Z">>
    /\ ret.station = <<"K","J","F","K">>
    /\ ret.timestamp_z = <<"1","8","5","1","Z">>

\* the tokens after the station token and, when there is one, the timestamp
RemainingTokens(toks) ==
    LET n == IF HasTimestamp(toks) THEN 2 ELSE (IF Len(toks) = 0 THEN 0 ELSE 1)
    IN  SubSeq(toks, n + 1, Len(toks))

\* C17: the wind, visibility, ceiling and phenomena of a decoded report are
\* those of the four decoders on the tokens that remain after the station
\* and timestamp tokens, so the station and the timestamp never change them.
C17_OnlyRemainingTokens ==
    pc = "return" =>
        LET rest == RemainingTokens(UpperTokens(arg))
        IN  /\ ret.wind = parse_wind(rest)
            /\ ret.visibility_sm = parse_visibility_sm(rest)
            /\ ret.ceiling_ft = parse_ceiling_ft(rest).ceiling_ft
            /\ ret.ceiling_layer = parse_ceiling_ft(rest).ceiling_layer
            /\ ret.weather = parse_weather(rest)

\* C18: a line with no tokens decodes to a report with every field absent:
\* empty station, no timestamp, a wind with no direction, speed 0 and no
\* gust, no visibility, no ceiling with an empty layer code, no phenomena.
C18_EmptyLineAllAbsent ==
    (pc = "return" /\ split_tokens(arg) = <<>>) =>
        ret = [station       |-> <<>>,
               timestamp_z   |-> <<>>,
               wind          |-> [direction_deg |-> NullOpt, speed_kt |-> 0,
                                  gust_kt |-> NullOpt],
               visibility_sm |-> NullOpt,
               ceiling_ft    |-> NullOpt,
               ceiling_layer |-> <<>>,
               weather       |-> <<>>]

C18_Witness ==
    /\ pc = "return"
    /\ arg = <<>>
    /\ ret.station = <<>>
    /\ ~ret.visibility_sm.has
    /\ ~ret.ceiling_ft.has


\* C19: compute_wind_components returns no components exactly when the wind
\* has no direction or the runway heading is 0; for every present direction
\* and every other heading, 360 included, it returns a pair of components.
C19_UnavailableIffNoDirectionOrZero ==
    pc = "return" =>
        IF ~arg.wind.direction_deg.has \/ arg.heading = 0
        THEN ret = NullOpt
        ELSE ret.has /\ DOMAIN ret.val = {"headwind", "crosswind"}

C19_Witness ==
    /\ pc = "return"
    /\ arg.heading = 360
    /\ arg.wind.direction_deg = Some(0)
    /\ arg.wind.speed_kt = 20
    /\ ret = Some([headwind |-> RatInt(20), crosswind |-> RatInt(0)])

\* C20: for every direction of three digits (000 to 999) and every runway
\* heading other than 0, the angle the components are computed from lies in
\* the closed range of 0 to 180 degrees.
C20_AngleWithinHalfTurn ==
    (pc = "return" /\ ret.has) =>
        angle_diff(arg.wind.direction_deg.val, arg.heading) \in 0..180


\* the angle between two bearings, between 0 and 180 degrees
NormalizedAngle(direction_deg, heading) ==
    LET r == Abs(direction_deg - heading) % 360
    IN  IF r > 180 THEN 360 - r ELSE r

\* x within 1/100 of cents/100
Within001(x, cents) ==
    /\ ~RatLess(Rat(cents + 1, 100), x)
    /\ ~RatLess(x, Rat(cents - 1, 100))

\* C21: when components are available, headwind = speed x cos(delta) and
\* crosswind = speed x sin(delta), delta being the normalized angle between
\* wind direction and runway heading and speed the sustained speed, whatever
\* the gust; heading 220 with wind 200 degrees at 20 kt gives headwind 18.79
\* and crosswind 6.84 within 0.01.
C21_ComponentsFromNormalizedAngle ==
    (pc = "return" /\ ret.has) =>
        LET delta == NormalizedAngle(arg.wind.direction_deg.val, arg.heading)
        IN  /\ ret.val.headwind = Rat(CosDeg(delta) * arg.wind.speed_kt, SinScale)
            /\ ret.val.crosswind = Rat(SinDeg(delta) * arg.wind.speed_kt, SinScale)
            /\ (arg.heading = 220 /\ arg.wind.direction_deg.val = 200
                    /\ arg.wind.speed_kt = 20)
                => /\ delta = 20
                   /\ Within001(ret.val.headwind, 1879)
                   /\ Within001(ret.val.crosswind, 684)

\* the same, for the directions and headings no further than a full turn apart
C21_WithinOneTurn ==
    (pc = "return" /\ ret.has
        /\ Abs(arg.wind.direction_deg.val - arg.heading) <= 360)
            => C21_ComponentsFromNormalizedAngle


\* the classification of a difference, in exact arithmetic
Classification(delta) ==
    IF RatLess(Rat(1, 20), delta) THEN "improving"
    ELSE IF RatLess(delta, [num |-> -1, den |-> 20]) THEN "worsening"
    ELSE "steady"

\* the trend `out` classifies visibility and ceiling of first and last by
\* their difference
ClassifiedByDifference(out, first, last) ==
    /\ (first.visibility_sm.has /\ last.visibility_sm.has) =>
        out.visibility = Some(Classification(
            RatSub(last.visibility_sm.val, first.visibility_sm.val)))
    /\ (first.ceiling_ft.has /\ last.ceiling_ft.has) =>
        out.ceiling = Some(Classification(
            RatInt(last.ceiling_ft.val - first.ceiling_ft.val)))

\* C22: for visibility and for ceiling present in both the first and the
\* last report, the trend is improving when last - first > 0.05, worsening
\* when last - first < -0.05 and steady otherwise, a difference of exactly
\* 0.05 either way included.
C22_TrendClassification ==
    Len(arg) >= 2 =>
        /\ trend_json # Pending =>
            ClassifiedByDifference(trend_json.val, arg[1], arg[Len(arg)])
        /\ trend_text # Pending =>
            ClassifiedByDifference(trend_text.val, arg[1], arg[Len(arg)])

\* a field is in the trend `out` exactly when first and last both have it
FieldsOfBoth(out, first, last) ==
    /\ out.visibility.has <=> (first.visibility_sm.has /\ last.visibility_sm.has)
    /\ out.ceiling.has <=> (first.ceiling_ft.has /\ last.ceiling_ft.has)
    /\ out.wind.has <=> (first.wind.direction_deg.has /\ last.wind.direction_deg.has)

\* C23: for two reports or more the trend is that of the first and the last
\* report alone, whatever stands between them, and a field (visibility,
\* ceiling, wind direction) is in the trend exactly when both the first and
\* the last report have it.
C23_OnlyFirstAndLast ==
    Len(arg) >= 2 =>
        LET ends == <<arg[1], arg[Len(arg)]>>
        IN  /\ trend_json # Pending =>
                /\ trend_json = print_trend_json(ends)
                /\ FieldsOfBoth(trend_json.val, ends[1], ends[2])
            /\ trend_text # Pending =>
                /\ trend_text = print_trend_text(ends)
                /\ FieldsOfBoth(trend_text.val, ends[1], ends[2])

C23_Witness ==
    /\ pc = "return"
    /\ Len(arg) = 3
    /\ ~arg[2].visibility_sm.has
    /\ arg[1].visibility_sm = Some(RatInt(5))
    /\ arg[3].visibility_sm = Some(RatInt(2))
    /\ trend_json.val.visibility = Some("worsening")
    /\ trend_text.val.visibility = Some("worsening")
    /\ trend_json.val.ceiling = Some("improving")

\* C24: a trend is produced exactly for two reports or more: for none or one
\* the JSON output carries a null trend and the text output no trend section.
C24_TrendNeedsTwoReports ==
    /\ trend_json # Pending => (trend_json.has <=> Len(arg) >= 2)
    /\ trend_text # Pending => (trend_text.has <=> Len(arg) >= 2)

C24_Witness ==
    /\ pc = "return"
    /\ Len(arg) = 1
    /\ arg[1].visibility_sm.has
    /\ trend_json = NullOpt
    /\ trend_text = NullOpt

C26_GustAtLeastSpeed ==
    (pc = "return" /\ ret.gust_kt.has) => ret.gust_kt.val >= ret.speed_kt


\* where the station's reports stand in the cycle files: hours back from
\* now, and place in the file
Occurrences(line) ==
    UNION { LET file == arg.files[HourBack(arg.now_hour, b)]
            IN  IF file.has
                THEN {<<b, k>> : k \in {n \in 1..Len(file.val) : trim(file.val[n]) = line}}
                ELSE {} : b \in 0..(HoursPerDay - 1) }

\* report x is older than report y: from an older cycle, or earlier in the
\* same cycle file
Older(x, y) ==
    /\ Occurrences(x) # {}
    /\ Occurrences(y) # {}
    /\ \A ox \in Occurrences(x), oy \in Occurrences(y) :
          \/ ox[1] > oy[1]
          \/ ox[1] = oy[1] /\ ox[2] < oy[2]

\* C27: fetch_metars_history returns the lines oldest to newest: a report
\* older than another (from an older hour cycle, or earlier in the same
\* cycle file) never stands after it in the returned sequence.
C27_OldestToNewest ==
    pc = "return" =>
        \A i, j \in 1..Len(ret.collected) :
            i < j => ~Older(ret.collected[j], ret.collected[i])

\* the same for two reports of different cycle files only
C27_AcrossCycles ==
    pc = "return" =>
        \A i, j \in 1..Len(ret.collected) :
            (/\ i < j
             /\ \A oi \in Occurrences(ret.collected[i]),
                   oj \in Occurrences(ret.collected[j]) : oi[1] # oj[1])
                => ~Older(ret.collected[j], ret.collected[i])

\* C28: the sequence fetch_metars_history builds never holds a line twice
\* nor more than desired_count lines; the loop fetches at most 48 cycles and
\* none once desired_count lines are collected.
C28_NoDuplicateNoExcess ==
    /\ [](pc \in {"loop", "return"} =>
            /\ \A i, j \in 1..Len(ret.collected) :
                  ret.collected[i] = ret.collected[j] => i = j
            /\ Len(ret.collected) <= arg.desired_count
            /\ ret.back <= max_hours)
    /\ [][(pc = "loop" /\ Len(ret.collected) >= arg.desired_count)
            => (pc' = "return" /\ ret'.back = ret.back)]_vars

C28_Witness ==
    /\ pc = "return"
    /\ arg.desired_count = 3
    /\ ret.back = 2
    /\ Len(ret.collected) = 3
    /\ arg.files[HourBack(arg.now_hour, 0)].val = <<FileLines.c, FileLines.a>>
    /\ arg.files[HourBack(arg.now_hour, 1)].val = <<FileLines.x, FileLines.a, FileLines.b>>
    /\ arg.files[HourBack(arg.now_hour, 2)] = Some(<<FileLines.a>>)


\* the marks of the text analysis say what the alerts object says
SameAlerts(marks, alerts) ==
    /\ marks.visibility = "BELOW" <=> "visibility" \in alerts
    /\ marks.ceiling = "BELOW" <=> "ceiling" \in alerts
    /\ marks.wind = "EXCEEDS" <=> "crosswind" \in alerts

\* two trends classify visibility and ceiling alike
SameTrend(a, b) ==
    /\ a.has <=> b.has
    /\ a.has => /\ a.val.visibility = b.val.visibility
                /\ a.val.ceiling = b.val.ceiling

WxCode(name) == CHOOSE c \in WxCodes : WxName(c) = name

\* the first token a code stands in
FirstToken(tokens, code) ==
    Min({k \in 1..Len(tokens) : CodeAt(tokens[k], code) # {}})

\* code c before code d in lexicographic order
CodeLess(c, d) ==
    LET rank(ch) == CHOOSE i \in 1..Len(UpperChars) : UpperChars[i] = ch
    IN  \/ rank(c[1]) < rank(d[1])
        \/ rank(c[1]) = rank(d[1]) /\ rank(c[2]) < rank(d[2])

\* C30: of two names returned, the one whose code is first met in an earlier
\* token comes first; names first met in the same token come in ascending
\* lexicographic order of their codes, wherever the codes stand in the token.
C30_CodeOrderWithinToken ==
    pc = "return" =>
        \A i, j \in 1..Len(ret) :
            i < j =>
                LET a == WxCode(ret[i])
                    b == WxCode(ret[j])
                IN  \/ FirstToken(arg, a) < FirstToken(arg, b)
                    \/ /\ FirstToken(arg, a) = FirstToken(arg, b)
                       /\ CodeLess(a, b)

C30_Witness ==
    /\ pc = "return"
    /\ arg = <<<<"V","C","S","H">>, <<"+","T","S","R","A">>>>
    /\ ret = <<"showers", "rain", "thunderstorm">>

====
